---- MODULE Spec2Model ----
(***************************************************************************)
(* StorageAdapter of n1snt/ilogger: a capacity-bounded log store that      *)
(* buffers appends (pendingWrites), flushes them to an IndexedDB-backed    *)
(* collection on a 100 ms debounce timer or before a read, and trims the   *)
(* collection to maxEntries.                                               *)
(*                                                                         *)
(* Execution model: one JavaScript event loop.  A step of the model is one *)
(* macrotask: a call made by the application (append, getAll, count,       *)
(* setMaxLogs, clear, close), the firing of the debounce timer, or the     *)
(* completion of one request of the persistent collection followed by the  *)
(* continuation of the async function awaiting it, run up to its next      *)
(* await.  The persistent collection serves its requests in the order in   *)
(* which they were issued (queue).                                         *)
(***************************************************************************)
EXTENDS Integers, Sequences, FiniteSets, TLC

\* ---------------------------------------------------------------- bounds
\* number of append() calls made in a behaviour
MaxAppends == 3
\* limits are drawn from 1..MaxLimit
MaxLimit == 2
\* number of requests of the persistent collection that fail in a behaviour
MaxFailures == 1
\* integers below 1 that a caller may hand to the constructor or to setMaxLogs
InvalidLimits == {-1, 0}

Limits == 1..MaxLimit

Slots == {"timer", "caller", "close"}

\* names of logger instances
Names == {"ui", "net"}

\* options.maxLogs ?? 5000
DefaultMaxLogs == 5000

\* the options an application passes to ILogger(): none, or a maxLogs
NoOptions == [has |-> FALSE, maxLogs |-> 0]

Options == {NoOptions} \cup {[has |-> TRUE, maxLogs |-> n] : n \in Limits}

\* ------------------------------------------------ array helpers (JavaScript)
\* Array.prototype.slice(start): a negative start counts from the end.
Slice(s, start) ==
    LET len == Len(s)
        k == IF start < 0
             THEN (IF len + start < 0 THEN 0 ELSE len + start)
             ELSE (IF start > len THEN len ELSE start)
    IN  SubSeq(s, k + 1, len)

\* position at which x goes into the sorted sequence s, after its equals
RECURSIVE InsertById(_, _)
InsertById(x, s) ==
    IF s = <<>> THEN <<x>>
    ELSE IF x.id < Head(s).id THEN <<x>> \o s
         ELSE <<Head(s)>> \o InsertById(x, Tail(s))

\* logs.sort((a, b) => (a.id || 0) - (b.id || 0)): stable, ascending by id
RECURSIVE SortById(_)
SortById(logs) ==
    IF logs = <<>> THEN <<>>
    ELSE InsertById(logs[Len(logs)], SortById(SubSeq(logs, 1, Len(logs) - 1)))

\* ({ id, ...log }) => log: every own field of the record but the one named id
StripId(rec) == [f \in DOMAIN rec \ {"id"} |-> rec[f]]

StripAll(logs) == [i \in 1..Len(logs) |-> StripId(logs[i])]

\* the entry written by the k-th append() call; index is the discriminator
\* field the caller supplies
Entry(k) == [index |-> k]

\* JSON null
Null == "null"

\* a record without fields
NoFields == [f \in {} |-> Null]

\* the fields a caller puts in a record besides the discriminator: none, a
\* nested value that has an id of its own, a null value, a field named id
Payloads ==
    {NoFields,
     [message |-> "m", user |-> [id |-> "u1", name |-> "n"]],
     [message |-> "m", value |-> Null],
     [message |-> "m", id |-> "a1"]}

\* ------------------------------------- persistent collection (IndexedDBAdapter)
\* a stored record: the record with its sequence identifier, which is what
\* read() returns in the field id
Stored(record, nid) ==
    [f \in DOMAIN record \cup {"id"} |-> IF f = "id" THEN nid ELSE record[f]]

\* append(record): stores it under the next auto-increment identifier
DbAppend(st, nid, entry) ==
    [store |-> Append(st, Stored(entry, nid)), nextId |-> nid + 1]

\* write(records): replaces the stored set, fresh identifiers in the order given
DbWrite(st, nid, records) ==
    [store |-> [i \in 1..Len(records) |-> Stored(records[i], nid + i - 1)],
     nextId |-> nid + Len(records)]

\* read(): all stored records, ascending by identifier
DbRead(st) == st

\* count()
DbCount(st) == Len(st)

\* clear()
DbClear(st, nid) == [store |-> <<>>, nextId |-> nid]

\* ------------------------------------------------------------------- state
VARIABLES
    maxEntries,     \* StorageAdapter.maxEntries
    pendingWrites,  \* StorageAdapter.pendingWrites
    writeTimer,     \* StorageAdapter.writeTimer: 0 is null, k the handle made by append k
    timers,         \* handles of the timeouts that are armed in the event loop
    store,          \* records of the persistent collection, with their identifiers
    nextId,         \* auto-increment key generator of the collection
    handleOpen,     \* whether the adapter's connection handle is live
    queue,          \* requests issued to the collection, not yet completed
    tasks,          \* async calls in flight: the timer's flush, the caller's call, close's flush
    appended,       \* history: number of append() calls so far
    cleared,        \* history: clear() has been called
    clearPoint,     \* history: number n of appends before the latest clear(); -1 - n if a flush was in flight then
    batchOf,        \* history: for each record, the first record of the flush batch that took it (0: none yet)
    alone,          \* history: per async call in flight, no other one was in flight with it
    call,           \* history: the state in which the caller's call in flight was made
    result,         \* history: what a call that settled in the last step returned
    flushed,        \* history: the flush that settled in the last step
    closing,        \* history: the latest close() and the release of the handle it led to
    failures,       \* history: number of awaited requests of the collection that have failed
    unhandled,      \* history: a rejection reached no handler (it escaped a callback)
    illogger,       \* iLogger.ts _illogger: 0 is null, k the k-th ILoggerCore constructed
    instances,      \* ILoggerCore.instances: per name, the core whose storage the
                    \* logger instance holds (0: no instance of that name)
    supplied        \* history: the record that the k-th append() is given

vars == <<maxEntries, pendingWrites, writeTimer, timers, store, nextId, handleOpen,
          queue, tasks, appended, cleared, clearPoint, batchOf, alone, call, result,
          flushed, closing, failures, unhandled, illogger, instances, supplied>>

Idle == [kind |-> "idle", pc |-> "idle", toWrite |-> <<>>, hasExcess |-> FALSE,
         excess |-> 0, ret |-> "none", left |-> 0, arg |-> 0, failed |-> FALSE]

Req(t, op) == [task |-> t, op |-> op, entry |-> Entry(0), records |-> <<>>]

NoResult == [op |-> "none", status |-> "none", list |-> <<>>, n |-> 0,
             durable |-> <<>>, stored |-> <<>>, buffered |-> <<>>, limit |-> 0,
             appended |-> 0, alone |-> FALSE, clean |-> FALSE, called |-> 0,
             flushFailed |-> FALSE, options |-> NoOptions]

NoCall == [op |-> "none", durable |-> <<>>, stored |-> <<>>, buffered |-> <<>>,
           clean |-> FALSE, limit |-> 0, appended |-> 0, arg |-> 0,
           prior |-> NoResult]

NoFlush == [kind |-> "none", batch |-> <<>>, durable |-> <<>>, limit |-> 0,
            alone |-> FALSE, failed |-> FALSE, waiting |-> <<>>, buffered |-> <<>>]

NoClose == [called |-> FALSE, appended |-> 0, released |-> FALSE, unsubmitted |-> {},
            first |-> <<>>, buffered |-> <<>>, clean |-> FALSE, pristine |-> FALSE]

\* ------------------------------------------------------ the program state
\* The operations of the class are functions from program state to program
\* state; an action applies one of them to the current state.  The histories
\* call, result and flushed describe one call or one flush: they are forgotten
\* by the step after the one in which the call or the flush settled.
Cur ==
    [maxEntries |-> maxEntries, pendingWrites |-> pendingWrites,
     writeTimer |-> writeTimer, timers |-> timers, store |-> store,
     nextId |-> nextId, handleOpen |-> handleOpen, queue |-> queue,
     tasks |-> tasks, appended |-> appended, cleared |-> cleared,
     clearPoint |-> clearPoint, batchOf |-> batchOf, alone |-> alone,
     call |-> IF tasks["caller"].pc = "idle" THEN NoCall ELSE call,
     result |-> NoResult, flushed |-> NoFlush, closing |-> closing,
     failures |-> failures, unhandled |-> unhandled,
     illogger |-> illogger, instances |-> instances, supplied |-> supplied]

\* nothing is in flight: no async call, no request
Quiet(p) == p.queue = <<>> /\ \A t \in Slots : p.tasks[t].pc = "idle"

\* alone, after a step from the current state to p
Alone(p) ==
    [t \in Slots |->
        IF p.tasks[t].pc = "idle" THEN TRUE
        ELSE IF tasks[t].pc = "idle"
             THEN queue = <<>> /\ \A u \in Slots : tasks[u].pc = "idle"
             ELSE alone[t] /\ \A u \in Slots \ {t} :
                                 tasks[u].pc = "idle" => p.tasks[u].pc = "idle"]

Apply(p) ==
    /\ maxEntries' = p.maxEntries
    /\ pendingWrites' = p.pendingWrites
    /\ writeTimer' = p.writeTimer
    /\ timers' = p.timers
    /\ store' = p.store
    /\ nextId' = p.nextId
    /\ handleOpen' = p.handleOpen
    /\ queue' = p.queue
    /\ tasks' = p.tasks
    /\ appended' = p.appended
    /\ cleared' = p.cleared
    /\ clearPoint' = p.clearPoint
    /\ batchOf' = p.batchOf
    /\ alone' = Alone(p)
    /\ call' = p.call
    /\ result' = p.result
    /\ flushed' = p.flushed
    /\ closing' = p.closing
    /\ failures' = p.failures
    /\ unhandled' = p.unhandled
    /\ illogger' = p.illogger
    /\ instances' = p.instances
    /\ supplied' = p.supplied

\* the batch of a flush has not been handed to the collection yet
Unsubmitted(T) ==
    T.pc = "count1" \/ (T.pc \in {"trimRead", "trimWrite"} /\ T.ret = "appends")

\* an async call awaiting a request of the collection
Awaiting(p, t, kind, pc) ==
    [p EXCEPT !.tasks[t] = [Idle EXCEPT !.kind = kind, !.pc = pc,
                                        !.failed = p.tasks[t].failed]]

Issue(p, req) == [p EXCEPT !.queue = Append(@, req)]

\* the caller's awaited call starts: what it starts from is recorded, and for
\* getAll() the result of a count() that returned in the step before
Called(p, op, arg) ==
    [p EXCEPT !.call = [op |-> op, durable |-> StripAll(p.store), stored |-> p.store,
                        buffered |-> p.pendingWrites, clean |-> Quiet(p),
                        limit |-> p.maxEntries, appended |-> p.appended,
                        arg |-> arg,
                        prior |-> IF op = "getAll" /\ result.op = "count"
                                  THEN result ELSE NoResult],
              !.closing.pristine = @ /\ op \notin {"setMaxLogs", "clear"}]

\* the caller's awaited call settles: its result and the state at that moment
Returns(p, t, op, status, list, n) ==
    [p EXCEPT !.tasks[t] = Idle,
              !.result = [op |-> op, status |-> status, list |-> list, n |-> n,
                          durable |-> StripAll(p.store), stored |-> p.store,
                          buffered |-> p.pendingWrites,
                          limit |-> p.maxEntries, appended |-> p.appended,
                          alone |-> p.alone[t], clean |-> p.call.clean,
                          called |-> p.call.appended,
                          flushFailed |-> p.tasks[t].failed,
                          options |-> NoOptions]]

\* a flush settles: its batch and the state at that moment are recorded
Flushed(p, t) ==
    [p EXCEPT !.flushed = [kind |-> p.tasks[t].kind, batch |-> p.tasks[t].toWrite,
                           durable |-> StripAll(p.store), limit |-> p.maxEntries,
                           alone |-> p.alone[t], failed |-> FALSE,
                           waiting |-> <<>>, buffered |-> p.pendingWrites]]

\* a flush settles in its catch block: its batch, the buffer it found there
\* (waiting) and the buffer it left are recorded
FlushFailed(p, t, waiting) ==
    [p EXCEPT !.flushed = [kind |-> p.tasks[t].kind, batch |-> p.tasks[t].toWrite,
                           durable |-> StripAll(p.store), limit |-> p.maxEntries,
                           alone |-> p.alone[t], failed |-> TRUE,
                           waiting |-> waiting, buffered |-> p.pendingWrites]]

\* a rejection travels up the awaits of the async call t: to the caller of a
\* public method, or out of a callback that nothing awaits
Rejected(p, t) ==
    IF t = "caller"
    THEN Returns(p, t, p.tasks[t].kind, "failed", <<>>, 0)
    ELSE [p EXCEPT !.tasks[t] = Idle, !.unhandled = TRUE]

\* variant: releasing the handle also drops the collection
Released_Drops(p) ==
    [p EXCEPT !.handleOpen = FALSE, !.store = <<>>,
              !.closing = [@ EXCEPT !.released = TRUE]]

\* close()'s db.close() runs: which records appended before that close() have
\* not been handed to the collection is recorded
Released(p) ==
    [p EXCEPT !.handleOpen = FALSE,
              !.closing = [@ EXCEPT !.released = TRUE,
                  !.unsubmitted =
                      {k \in 1..p.closing.appended :
                          \/ \E i \in 1..Len(p.pendingWrites) : p.pendingWrites[i].index = k
                          \/ \E u \in Slots :
                                /\ Unsubmitted(p.tasks[u])
                                /\ \E i \in 1..Len(p.tasks[u].toWrite) :
                                      p.tasks[u].toWrite[i].index = k}]]

\* ------------------------------------------------------- trimOldEntries
\* trimOldEntries(excessCount?), up to its await of db.read()
trimOldEntries(p, t, hasExcess, excess, ret) ==
    Issue([p EXCEPT !.tasks[t] = [@ EXCEPT !.pc = "trimRead", !.hasExcess = hasExcess,
                                            !.excess = excess, !.ret = ret]],
          Req(t, "read"))

\* toKeep of trimOldEntries
toKeep(logs, hasExcess, excess, limit) ==
    LET sorted == SortById(logs)
    IN  IF hasExcess /\ excess > 0 THEN Slice(sorted, excess) ELSE Slice(sorted, 0 - limit)

\* variant of beginAppends: the appends of the batch are issued last record first
beginAppends_Reversed(p, t) ==
    LET tw == p.tasks[t].toWrite
    IN  [p EXCEPT !.tasks[t] = [@ EXCEPT !.pc = "appends", !.left = Len(tw)],
                  !.queue = @ \o [i \in 1..Len(tw) |->
                                     [Req(t, "append") EXCEPT !.entry = tw[Len(tw) + 1 - i]]]]

\* Promise.all(toWrite.map((entry) => this.db.append(entry)))
beginAppends(p, t) ==
    LET tw == p.tasks[t].toWrite
    IN  [p EXCEPT !.tasks[t] = [@ EXCEPT !.pc = "appends", !.left = Len(tw)],
                  !.queue = @ \o [i \in 1..Len(tw) |->
                                     [Req(t, "append") EXCEPT !.entry = tw[i]]]]

\* what runs when `await this.flushPendingWrites()` resumes in its caller
afterFlush(p, t, kind, arg) ==
    CASE kind = "timer" -> [p EXCEPT !.tasks[t] = Idle]
      [] kind = "getAll" -> Issue(Awaiting(p, t, kind, "read"), Req(t, "read"))
      [] kind = "count" -> Issue(Awaiting(p, t, kind, "count"), Req(t, "count"))
      [] kind = "setMaxLogs" ->
            Issue([Awaiting(p, t, kind, "smCount") EXCEPT !.maxEntries = arg,
                                                           !.tasks[t].arg = arg],
                  Req(t, "count"))
      [] kind = "close" -> Released([p EXCEPT !.tasks[t] = Idle])
      [] kind = "reopen" -> Issue(Awaiting(p, t, kind, "read"), Req(t, "read"))

\* trimOldEntries returns (it swallows its own errors) to the code that awaited it
afterTrim(p, t) ==
    LET T == p.tasks[t]
    IN  CASE T.ret = "appends" -> beginAppends(p, t)
          [] T.ret = "flushEnd" -> afterFlush(Flushed(p, t), t, T.kind, T.arg)
          [] T.ret = "smEnd" -> Returns(p, t, "setMaxLogs", "ok", <<>>, 0)

\* trimOldEntries after db.read() resolved with logs
onTrimRead(p, t, logs) ==
    LET T == p.tasks[t]
    IN  IF ~T.hasExcess /\ Len(logs) <= p.maxEntries
        THEN afterTrim(p, t)
        ELSE Issue([p EXCEPT !.tasks[t].pc = "trimWrite"],
                   [Req(t, "write") EXCEPT
                       !.records = StripAll(toKeep(logs, T.hasExcess, T.excess, p.maxEntries))])

\* --------------------------------------------------- flushPendingWrites
\* variant of flushPendingWrites: without the return on an empty buffer
flushPendingWrites_NoReturn(p, t, kind, arg) ==
    Issue([p EXCEPT !.tasks[t] = [Idle EXCEPT !.kind = kind, !.pc = "count1",
                                              !.toWrite = p.pendingWrites,
                                              !.arg = arg],
                    !.pendingWrites = <<>>],
          Req(t, "count"))

\* flushPendingWrites, up to its first await (db.count())
flushPendingWrites(p, t, kind, arg) ==
    IF p.pendingWrites = <<>>
    THEN afterFlush(p, t, kind, arg)
    ELSE Issue([p EXCEPT !.tasks[t] = [Idle EXCEPT !.kind = kind, !.pc = "count1",
                                                   !.toWrite = p.pendingWrites,
                                                   !.arg = arg],
                         !.pendingWrites = <<>>,
                         !.batchOf = [k \in DOMAIN @ |->
                                         IF \E i \in 1..Len(p.pendingWrites) :
                                                p.pendingWrites[i].index = k
                                         THEN p.pendingWrites[1].index ELSE @[k]]],
               Req(t, "count"))

\* variant of onCount1: the batch is added without the trim that makes room
onCount1_NoTrim(p, t, currentCount) == beginAppends(p, t)

\* flushPendingWrites after the first db.count() resolved with currentCount
onCount1(p, t, currentCount) ==
    LET n == Len(p.tasks[t].toWrite)
        willExceedLimit == currentCount + n > p.maxEntries
    IN  IF willExceedLimit
        THEN trimOldEntries(p, t, TRUE, currentCount + n - p.maxEntries, "appends")
        ELSE beginAppends(p, t)

\* one db.append of the batch resolved; Promise.all resolves with the last one
onAppended(p, t) ==
    IF p.tasks[t].left > 1
    THEN [p EXCEPT !.tasks[t].left = @ - 1]
    ELSE Issue([p EXCEPT !.tasks[t] = [@ EXCEPT !.left = 0, !.pc = "count2"]],
               Req(t, "count"))

\* variant of onCount2: the flush ends without its final trim
onCount2_NoTrim(p, t, finalCount) ==
    afterFlush(Flushed(p, t), t, p.tasks[t].kind, p.tasks[t].arg)

\* flushPendingWrites after the final db.count() resolved with finalCount
onCount2(p, t, finalCount) ==
    IF finalCount > p.maxEntries
    THEN trimOldEntries(p, t, FALSE, 0, "flushEnd")
    ELSE afterFlush(Flushed(p, t), t, p.tasks[t].kind, p.tasks[t].arg)

\* the requests of t still queued: nothing awaits them any more
Orphaned(q, t) ==
    [i \in 1..Len(q) |-> IF q[i].task = t THEN [q[i] EXCEPT !.task = "none"] ELSE q[i]]

\* variant: the catch block puts the batch back behind the buffer
onFlushFailed_Pushes(p, t) ==
    LET T == p.tasks[t]
        c == [p EXCEPT !.pendingWrites = @ \o T.toWrite,
                       !.queue = Orphaned(@, t),
                       !.tasks[t].failed = TRUE]
    IN  afterFlush(FlushFailed(c, t, p.pendingWrites), t, T.kind, T.arg)

\* variant: the catch block puts the batch back and throws the error again
onFlushFailed_Rethrows(p, t) ==
    LET T == p.tasks[t]
        c == [p EXCEPT !.pendingWrites = T.toWrite \o @,
                       !.queue = Orphaned(@, t),
                       !.tasks[t].failed = TRUE]
    IN  Rejected(FlushFailed(c, t, p.pendingWrites), t)

\* flushPendingWrites: a request awaited in its try block rejected; the catch
\* block logs and puts the batch back in front of the buffer
onFlushFailed(p, t) ==
    LET T == p.tasks[t]
        c == [p EXCEPT !.pendingWrites = T.toWrite \o @,
                       !.queue = Orphaned(@, t),
                       !.tasks[t].failed = TRUE]
    IN  afterFlush(FlushFailed(c, t, p.pendingWrites), t, T.kind, T.arg)

\* trimOldEntries: db.read() or db.write() rejected; its catch block only logs
onTrimFailed(p, t) == afterTrim(p, t)

\* variant: the method resolves with an empty result
onDirectFailed_Resolves(p, t) == Returns(p, t, p.tasks[t].kind, "ok", <<>>, 0)

\* variant: the method rejects and puts back the limit in force when it was called
onDirectFailed_RestoresLimit(p, t) ==
    Rejected([p EXCEPT !.maxEntries = p.call.limit], t)

\* the request that a public method awaits itself rejected: the method rejects
onDirectFailed(p, t) == Rejected(p, t)

\* ------------------------------------------------------- public methods
\* variant of append: it arms a new timer without cancelling the armed one
append_KeepsTimer(p) ==
    LET k == p.appended + 1
    IN  [p EXCEPT !.pendingWrites = Append(@, Entry(k)),
                  !.timers = @ \cup {k},
                  !.writeTimer = k,
                  !.appended = k]

\* variant of append: the entry is buffered and no timer is armed
append_NoTimer(p) ==
    LET k == p.appended + 1
    IN  [p EXCEPT !.pendingWrites = Append(@, Entry(k)),
                  !.appended = k]

\* append(entry)
append(p) ==
    LET k == p.appended + 1
    IN  [p EXCEPT !.pendingWrites = Append(@, Entry(k)),
                  !.timers = (@ \ {p.writeTimer}) \cup {k},
                  !.writeTimer = k,
                  !.appended = k]

\* append(entry) with an entry that carries the fields the caller chose
appendRecord(p, fields) ==
    LET k == p.appended + 1
        entry == Entry(k) @@ fields
    IN  [append(p) EXCEPT !.pendingWrites = Append(p.pendingWrites, entry),
                          !.supplied[k] = entry]

\* the callback of setTimeout fires: async () => { await this.flushPendingWrites() }
timerFires(p, h) ==
    flushPendingWrites([p EXCEPT !.timers = @ \ {h}], "timer", "timer", 0)

\* the callback of a later timeout fires while the flush of an earlier one is
\* still in flight: it runs as the async call t
timerFiresAgain(p, h, t) ==
    flushPendingWrites([p EXCEPT !.timers = @ \ {h}], t, "timer", 0)

\* getMaxLogs()
getMaxLogs == maxEntries

\* variant of getAll: it reads the collection without flushing the buffer first
getAll_NoFlush(p) == afterFlush(Called(p, "getAll", 0), "caller", "getAll", 0)

\* getAll(), up to its first await of a request
getAll(p) == flushPendingWrites(Called(p, "getAll", 0), "caller", "getAll", 0)

\* variant: getAll() returns the records as the collection stores them
onGetAllRead_KeepsId(p, t, logs) ==
    Returns(p, t, p.tasks[t].kind, "ok", logs, Len(logs))

\* getAll() after db.read() resolved
onGetAllRead(p, t, logs) ==
    Returns(p, t, p.tasks[t].kind, "ok", StripAll(logs), Len(logs))

\* variant of count: it counts the collection without flushing the buffer first
count_NoFlush(p) == afterFlush(Called(p, "count", 0), "caller", "count", 0)

\* count(), up to its first await of a request
count(p) == flushPendingWrites(Called(p, "count", 0), "caller", "count", 0)

\* count() after its db.count() resolved
onCountCount(p, t, n) == Returns(p, t, "count", "ok", <<>>, n)

\* variant of setMaxLogs: the limit is stored before it is validated
setMaxLogs_StoresFirst(p, maxLogs) ==
    IF maxLogs < 1
    THEN Returns([Called(p, "setMaxLogs", maxLogs) EXCEPT !.maxEntries = maxLogs],
                 "caller", "setMaxLogs", "invalid", <<>>, 0)
    ELSE flushPendingWrites(Called(p, "setMaxLogs", maxLogs), "caller", "setMaxLogs", maxLogs)

\* setMaxLogs(maxLogs), up to its first await of a request (or its throw)
setMaxLogs(p, maxLogs) ==
    IF maxLogs < 1
    THEN Returns(Called(p, "setMaxLogs", maxLogs), "caller", "setMaxLogs", "invalid", <<>>, 0)
    ELSE flushPendingWrites(Called(p, "setMaxLogs", maxLogs), "caller", "setMaxLogs", maxLogs)

\* variant of onSetMaxLogsCount: setMaxLogs always calls trimOldEntries(0)
onSetMaxLogsCount_Rewrites(p, t, currentCount) ==
    trimOldEntries(p, t, TRUE, 0, "smEnd")

\* variant of onSetMaxLogsCount: setMaxLogs resolves without trimming to the new limit
onSetMaxLogsCount_NoTrim(p, t, currentCount) ==
    Returns(p, t, "setMaxLogs", "ok", <<>>, 0)

\* setMaxLogs after its db.count() resolved with currentCount
onSetMaxLogsCount(p, t, currentCount) ==
    IF currentCount > p.maxEntries
    THEN trimOldEntries(p, t, FALSE, 0, "smEnd")
    ELSE Returns(p, t, "setMaxLogs", "ok", <<>>, 0)

\* variant of clear: the buffer and the armed timer are left as they are
clear_KeepsBuffer(p) ==
    LET c == Called(p, "clear", 0)
    IN  Issue([Awaiting(c, "caller", "clear", "clear") EXCEPT
                   !.cleared = TRUE,
                   !.clearPoint = IF Quiet(p) THEN p.appended ELSE -1 - p.appended],
              Req("caller", "clear"))

\* clear(), up to its await of db.clear()
clear(p) ==
    LET c == Called(p, "clear", 0)
    IN  Issue([Awaiting(c, "caller", "clear", "clear") EXCEPT
                   !.pendingWrites = <<>>,
                   !.timers = IF p.writeTimer # 0 THEN @ \ {p.writeTimer} ELSE @,
                   !.writeTimer = 0,
                   !.cleared = TRUE,
                   !.clearPoint = IF Quiet(p) THEN p.appended ELSE -1 - p.appended],
              Req("caller", "clear"))

\* clear() after db.clear() resolved
onCleared(p, t) == Returns(p, t, "clear", "ok", <<>>, 0)

\* close() follows an earlier close() with no append in between
Consecutive(p) == p.closing.called /\ p.closing.appended = p.appended

\* close(): cancels the timer, then flushPendingWrites().finally(() => db.close());
\* the history keeps what the first of consecutive close() calls started from
close(p) ==
    LET c == [p EXCEPT !.timers = IF p.writeTimer # 0 THEN @ \ {p.writeTimer} ELSE @,
                       !.writeTimer = 0,
                       !.closing =
                           [NoClose EXCEPT
                               !.called = TRUE,
                               !.pristine = TRUE,
                               !.appended = p.appended,
                               !.first = IF Consecutive(p) THEN p.closing.first
                                         ELSE StripAll(p.store),
                               !.buffered = IF Consecutive(p) THEN p.closing.buffered
                                            ELSE p.pendingWrites,
                               !.clean = IF Consecutive(p) THEN p.closing.clean
                                         ELSE Quiet(p)]]
    IN  IF c.pendingWrites = <<>>
        THEN Released(c)
        ELSE flushPendingWrites(c, "close", "close", 0)

\* a second store is constructed on the same key and its getAll() is called:
\* its buffer is empty, so its flush returns at once and it reads the collection
reopenGetAll(p) == afterFlush(Called(p, "reopen", 0), "caller", "reopen", 0)

\* constructor(key, maxEntries): the limit is stored as given
ConstructorSets(limit) ==
    /\ maxEntries = limit
    /\ pendingWrites = <<>>
    /\ writeTimer = 0
    /\ timers = {}
    /\ store = <<>>
    /\ nextId = 1
    /\ handleOpen = FALSE
    /\ queue = <<>>
    /\ tasks = [t \in Slots |-> Idle]
    /\ appended = 0
    /\ cleared = FALSE
    /\ clearPoint = 0
    /\ batchOf = [k \in 1..MaxAppends |-> 0]
    /\ alone = [t \in Slots |-> TRUE]
    /\ call = NoCall
    /\ result = NoResult
    /\ flushed = NoFlush
    /\ closing = NoClose
    /\ failures = 0
    /\ unhandled = FALSE
    /\ illogger = 0
    /\ instances = [n \in Names |-> 0]
    /\ supplied = [k \in 1..MaxAppends |-> Entry(k)]

\* ------------------------------------------------------------- iLogger.ts
\* new ILoggerCore(options): a core with a new StorageAdapter
\* ("__illogger__", options.maxLogs ?? 5000)
ILoggerCore(p, options) ==
    [p EXCEPT !.illogger = @ + 1,
              !.maxEntries = IF options.has THEN options.maxLogs ELSE DefaultMaxLogs,
              !.pendingWrites = <<>>,
              !.writeTimer = 0]

\* what a call of ILogger() returned: the core and its getMaxLogs()
Gives(p, options) ==
    [p EXCEPT !.result = [NoResult EXCEPT !.op = "ILogger", !.status = "ok",
                                          !.n = p.illogger, !.limit = p.maxEntries,
                                          !.options = options]]

\* variant of ILogger: every call constructs a core
ILogger_AlwaysNew(p, options) == Gives(ILoggerCore(p, options), options)

\* ILogger(options): if (!_illogger) _illogger = new ILoggerCore(options)
ILogger(p, options) ==
    Gives(IF p.illogger = 0 THEN ILoggerCore(p, options) ELSE p, options)

\* createInstance(name): a LoggerInstance holding this.storage
createInstance(p, name) == [p EXCEPT !.instances[name] = p.illogger]

\* LoggerInstance.writeLog: this.storage.append(entry)
writeLog(p, name) == append(p)

\* a store constructed with a positive limit (the documented configuration)
Init == \E limit \in Limits : ConstructorSets(limit)

\* a store constructed with any integer the caller supplies
InitAny == \E limit \in InvalidLimits \cup Limits : ConstructorSets(limit)

\* ---------------------------------------------------------------- actions
\* the request at the head of the queue, taken off it; serving it uses the handle
Served == [Cur EXCEPT !.queue = Tail(@), !.handleOpen = TRUE]

\* the head request belongs to task t, which awaits it at pc
HeadIs(t, pc) ==
    /\ queue # <<>>
    /\ Head(queue).task = t
    /\ tasks[t].pc = pc

CallAppend == /\ appended < MaxAppends
          /\ Apply(append(Cur))

\* the timer fires with nothing buffered: its flush returns at once (the
\* history records a flush of kind "empty")
TimerFiresIdle == \E h \in timers :
    /\ pendingWrites = <<>>
    /\ Apply([Cur EXCEPT !.timers = @ \ {h},
                         !.flushed = [NoFlush EXCEPT !.kind = "empty",
                                                     !.durable = StripAll(store),
                                                     !.limit = maxEntries]])

\* the timer fires and its flush takes the buffer
TimerFires == \E h \in timers :
    /\ pendingWrites # <<>>
    /\ tasks["timer"].pc = "idle"
    /\ Apply(timerFires(Cur, h))

CallGetAll == /\ tasks["caller"].pc = "idle"
          /\ Apply(getAll(Cur))

CallCount == /\ tasks["caller"].pc = "idle"
         /\ Apply(count(Cur))

CallSetMaxLogs == \E n \in InvalidLimits \cup Limits :
    /\ tasks["caller"].pc = "idle"
    /\ Apply(setMaxLogs(Cur, n))

CallClear == /\ tasks["caller"].pc = "idle"
         /\ Apply(clear(Cur))

CallClose == /\ (pendingWrites # <<>> => tasks["close"].pc = "idle")
         /\ Apply(close(Cur))

\* the second store is opened once the first one has released its handle
ReopenGetAll == /\ closing.released
                /\ tasks["caller"].pc = "idle"
                /\ Apply(reopenGetAll(Cur))

\* completions of the collection's requests, each with the continuation it resumes
FlushCounted == \E t \in Slots :
    /\ HeadIs(t, "count1")
    /\ Apply(onCount1(Served, t, DbCount(store)))

TrimRead == \E t \in Slots :
    /\ HeadIs(t, "trimRead")
    /\ Apply(onTrimRead(Served, t, DbRead(store)))

TrimWritten == \E t \in Slots :
    /\ HeadIs(t, "trimWrite")
    /\ LET w == DbWrite(store, nextId, Head(queue).records)
       IN  Apply(afterTrim([Served EXCEPT !.store = w.store, !.nextId = w.nextId], t))

FlushAppended == \E t \in Slots :
    /\ HeadIs(t, "appends")
    /\ LET a == DbAppend(store, nextId, Head(queue).entry)
       IN  Apply(onAppended([Served EXCEPT !.store = a.store, !.nextId = a.nextId], t))

FlushRecounted == \E t \in Slots :
    /\ HeadIs(t, "count2")
    /\ Apply(onCount2(Served, t, DbCount(store)))

GetAllRead ==
    /\ HeadIs("caller", "read")
    /\ Apply(onGetAllRead(Served, "caller", DbRead(store)))

CountCounted ==
    /\ HeadIs("caller", "count")
    /\ Apply(onCountCount(Served, "caller", DbCount(store)))

SetMaxLogsCounted ==
    /\ HeadIs("caller", "smCount")
    /\ Apply(onSetMaxLogsCount(Served, "caller", DbCount(store)))

Cleared ==
    /\ HeadIs("caller", "clear")
    /\ LET c == DbClear(store, nextId)
       IN  Apply(onCleared([Served EXCEPT !.store = c.store, !.nextId = c.nextId], "caller"))

\* the head request, taken off the queue, has failed: the collection is unchanged
Failed == [Served EXCEPT !.failures = @ + 1]

FlushFails == \E t \in Slots :
    /\ failures < MaxFailures
    /\ HeadIs(t, "count1") \/ HeadIs(t, "appends") \/ HeadIs(t, "count2")
    /\ Apply(onFlushFailed(Failed, t))

TrimFails == \E t \in Slots :
    /\ failures < MaxFailures
    /\ HeadIs(t, "trimRead") \/ HeadIs(t, "trimWrite")
    /\ Apply(onTrimFailed(Failed, t))

DirectFails ==
    /\ failures < MaxFailures
    /\ \E pc \in {"read", "count", "smCount", "clear"} : HeadIs("caller", pc)
    /\ Apply(onDirectFailed(Failed, "caller"))

\* an append that its flush no longer awaits completes
OrphanAppended ==
    /\ queue # <<>>
    /\ Head(queue).task = "none"
    /\ LET a == DbAppend(store, nextId, Head(queue).entry)
       IN  Apply([Served EXCEPT !.store = a.store, !.nextId = a.nextId])

\* an append that its flush no longer awaits fails: nothing observes it
OrphanFails ==
    /\ queue # <<>>
    /\ Head(queue).task = "none"
    /\ Apply(Served)

Next ==
    \/ CallAppend
    \/ TimerFiresIdle
    \/ TimerFires
    \/ CallGetAll
    \/ CallCount
    \/ CallSetMaxLogs
    \/ CallClear
    \/ FlushCounted
    \/ TrimRead
    \/ TrimWritten
    \/ FlushAppended
    \/ FlushRecounted
    \/ GetAllRead
    \/ CountCounted
    \/ SetMaxLogsCounted
    \/ Cleared

Spec == Init /\ [][Next]_vars

\* a store whose limit stays the one given at construction and that is never
\* cleared: appends, timer firings and reads only
NextFixed ==
    \/ CallAppend
    \/ TimerFiresIdle
    \/ TimerFires
    \/ CallGetAll
    \/ FlushCounted
    \/ TrimRead
    \/ TrimWritten
    \/ FlushAppended
    \/ FlushRecounted
    \/ GetAllRead

SpecFixed == Init /\ [][NextFixed]_vars

\* the same with close() and with a second store opened on the same key
NextClose ==
    \/ NextFixed
    \/ CallClose
    \/ ReopenGetAll

SpecClose == Init /\ [][NextClose]_vars

\* any integer as the limit given at construction, and setMaxLogs
NextLimit ==
    \/ NextFixed
    \/ CallSetMaxLogs
    \/ SetMaxLogsCounted

SpecAny == InitAny /\ [][NextLimit]_vars

\* appends, timer firings and setMaxLogs(n) with n up to one more than the
\* largest limit a store is constructed with
CallSetMaxLogsWide == \E n \in 1..(MaxLimit + 1) :
    /\ tasks["caller"].pc = "idle"
    /\ Apply(setMaxLogs(Cur, n))

NextWide ==
    \/ CallAppend
    \/ TimerFiresIdle
    \/ TimerFires
    \/ CallSetMaxLogsWide
    \/ FlushCounted
    \/ TrimRead
    \/ TrimWritten
    \/ FlushAppended
    \/ FlushRecounted
    \/ SetMaxLogsCounted

SpecWide == Init /\ [][NextWide]_vars

\* the module iLogger.ts after loading: no core yet
InitModule == ConstructorSets(0)

\* ILogger(options) is called, with no maxLogs or with a positive one
CallILogger == \E options \in Options :
    /\ options.has => options.maxLogs >= 1
    /\ Apply(ILogger(Cur, options))

CreateInstance == \E name \in Names :
    /\ illogger # 0
    /\ Apply(createInstance(Cur, name))

WriteLog == \E name \in Names :
    /\ instances[name] # 0
    /\ appended < MaxAppends
    /\ Apply(writeLog(Cur, name))

\* ILoggerCore.setMaxLogs: await this.storage.setMaxLogs(maxLogs)
CoreSetMaxLogs ==
    /\ illogger # 0
    /\ CallSetMaxLogs

NextLogger ==
    \/ CallILogger
    \/ CreateInstance
    \/ WriteLog
    \/ CoreSetMaxLogs
    \/ TimerFiresIdle
    \/ TimerFires
    \/ FlushCounted
    \/ TrimRead
    \/ TrimWritten
    \/ FlushAppended
    \/ FlushRecounted
    \/ SetMaxLogsCounted

SpecLogger == InitModule /\ [][NextLogger]_vars

\* appends, timer firings and setMaxLogs; the requests of a trim and the
\* db.count() of setMaxLogs may fail
NextLimitFail ==
    \/ CallAppend
    \/ TimerFiresIdle
    \/ TimerFires
    \/ CallSetMaxLogs
    \/ FlushCounted
    \/ TrimRead
    \/ TrimWritten
    \/ FlushAppended
    \/ FlushRecounted
    \/ SetMaxLogsCounted
    \/ TrimFails
    \/ DirectFails

SpecLimitFail == Init /\ [][NextLimitFail]_vars

\* the store is closed once and used afterwards: close() when it has not been
\* called yet, the awaited calls once the handle has been released
CloseOnce == ~closing.called /\ CallClose

LaterGetAll == closing.released /\ CallGetAll

LaterCount == closing.released /\ CallCount

LaterSetMaxLogs == closing.released /\ CallSetMaxLogs

LaterClear == closing.released /\ CallClear

NextAfterClose ==
    \/ CallAppend
    \/ TimerFiresIdle
    \/ TimerFires
    \/ CloseOnce
    \/ LaterGetAll
    \/ LaterCount
    \/ LaterSetMaxLogs
    \/ LaterClear
    \/ FlushCounted
    \/ TrimRead
    \/ TrimWritten
    \/ FlushAppended
    \/ FlushRecounted
    \/ GetAllRead
    \/ CountCounted
    \/ SetMaxLogsCounted
    \/ Cleared

SpecAfterClose == Init /\ [][NextAfterClose]_vars

\* appends, timer firings and reads; requests of the collection may fail
NextFail ==
    \/ NextFixed
    \/ FlushFails
    \/ TrimFails
    \/ DirectFails
    \/ OrphanAppended
    \/ OrphanFails

SpecFail == Init /\ [][NextFail]_vars

\* getAll(), count() and clear(); the request such a call awaits itself may fail
NextDirect ==
    \/ NextFixed
    \/ CallCount
    \/ CountCounted
    \/ CallClear
    \/ Cleared
    \/ DirectFails

SpecDirect == Init /\ [][NextDirect]_vars

\* appends, timer firings and close() called any number of times; requests of
\* the collection may fail
NextCloseFail ==
    \/ CallAppend
    \/ TimerFires
    \/ CallClose
    \/ FlushCounted
    \/ TrimRead
    \/ TrimWritten
    \/ FlushAppended
    \/ FlushRecounted
    \/ FlushFails
    \/ TrimFails
    \/ OrphanAppended
    \/ OrphanFails

SpecCloseFail == Init /\ [][NextCloseFail]_vars

\* the timer fires while the flush that an earlier firing started is in flight
TimerFiresAgain == \E h \in timers :
    /\ pendingWrites # <<>>
    /\ tasks["timer"].pc # "idle"
    /\ tasks["caller"].pc = "idle"
    /\ Apply(timerFiresAgain(Cur, h, "caller"))

\* what the event loop and the collection do by themselves: an armed timer
\* fires, a request completes and the call awaiting it goes on
Autonomous ==
    \/ TimerFires
    \/ TimerFiresAgain
    \/ FlushCounted
    \/ TrimRead
    \/ TrimWritten
    \/ FlushAppended
    \/ FlushRecounted

\* a store that is only appended to: no read, no clear(), no failing request
NextTimer ==
    \/ CallAppend
    \/ Autonomous

\* an armed timer fires and an issued request completes, eventually
SpecTimer == Init /\ [][NextTimer]_vars /\ WF_vars(Autonomous)

\* appends, timer firings and setMaxLogs; any request may fail: one of a flush,
\* one of a trim, the db.count() of setMaxLogs
NextSetFail ==
    \/ NextLimitFail
    \/ FlushFails
    \/ OrphanAppended
    \/ OrphanFails

SpecSetFail == Init /\ [][NextSetFail]_vars

\* appends, timer firings, clear() and close() called at any moment
NextCancel ==
    \/ CallAppend
    \/ TimerFires
    \/ CallClear
    \/ CallClose
    \/ FlushCounted
    \/ TrimRead
    \/ TrimWritten
    \/ FlushAppended
    \/ FlushRecounted
    \/ Cleared

SpecCancel == Init /\ [][NextCancel]_vars

\* append() is given a record with fields of the caller's choice
CallAppendRecord == \E fields \in Payloads :
    /\ appended < MaxAppends
    /\ Apply(appendRecord(Cur, fields))

\* appends of such records, timer firings and reads
NextRecord ==
    \/ CallAppendRecord
    \/ TimerFiresIdle
    \/ TimerFires
    \/ CallGetAll
    \/ FlushCounted
    \/ TrimRead
    \/ TrimWritten
    \/ FlushAppended
    \/ FlushRecounted
    \/ GetAllRead

SpecRecord == Init /\ [][NextRecord]_vars

\* =================================================================== claims
\* Helpers of the properties below.
Min(a, b) == IF a < b THEN a ELSE b

LastN(s, n) == SubSeq(s, Len(s) - n + 1, Len(s))

\* the records appended a-th to b-th, in append order
Range(a, b) == [i \in 1..(b - a + 1) |-> Entry(a + i - 1)]

In(e, s) == \E i \in 1..Len(s) : s[i] = e

\* getAll(), count() or setMaxLogs() returned its result in the last step
Settled == result.op \in {"getAll", "count", "setMaxLogs"} /\ result.status = "ok"

\* C1 (capacity invariant): whenever getAll(), count() or setMaxLogs() has
\* returned its result, the durable collection holds at most getMaxLogs()
\* records, and with no clear() so far (and no append made while the call was
\* in flight) their number is min(limit, number of records appended so far).
C1_CapacityInvariant ==
    Settled =>
        /\ Len(result.durable) <= result.limit
        /\ (~cleared /\ result.appended = call.appended)
              => Len(result.durable) = Min(result.limit, result.appended)

\* C2 (most-recent-kept): with a fixed limit n, once n+k records have been
\* appended and every flush has settled (nothing is in flight when getAll() is
\* called, and nothing else runs while it is in flight), getAll() returns
\* exactly the last n appended records, in append order.
C2_MostRecentKept ==
    (/\ result.op = "getAll"
     /\ call.clean
     /\ result.alone
     /\ result.appended = call.appended
     /\ result.appended >= result.limit)
        => result.list = Range(result.appended - result.limit + 1, result.appended)

\* getAll() returned in the last step; it was called with records in the buffer
\* and nothing in flight, and no other flush ran while it was in flight
ReadAfterAppend ==
    /\ result.op = "getAll"
    /\ call.clean
    /\ call.buffered # <<>>
    /\ result.alone

\* the record appended last before that call
JustAppended == call.buffered[Len(call.buffered)]

\* C3 (flush-before-read): when append(r) is followed by getAll() with no timer
\* firing and no other flush in between, the result of getAll() contains r and
\* the buffer is empty when getAll() returns.
C3_FlushBeforeRead ==
    ReadAfterAppend =>
        /\ In(JustAppended, result.list)
        /\ result.buffered = <<>>

\* C3, amended: the result contains r, and when getAll() returns the buffer
\* holds exactly the records appended while getAll() was in flight.
C3_FlushBeforeReadAmended ==
    ReadAfterAppend =>
        /\ In(JustAppended, result.list)
        /\ result.buffered = Range(call.appended + 1, result.appended)

\* a getAll() that found records in the buffer returns after a further append
C3_Witness == ReadAfterAppend /\ result.appended > call.appended

\* two records of s that one flush took are in s in the order of their appends
SameBatchInOrder(s) ==
    \A i, j \in 1..Len(s) :
        (i < j /\ batchOf[s[i].index] = batchOf[s[j].index]) => s[i].index < s[j].index

\* C4 (ordering within a batch): the records of one flush batch are stored
\* durably, and returned by getAll(), in the order in which they were appended.
C4_OrderWithinBatch ==
    /\ SameBatchInOrder(store)
    /\ result.op = "getAll" => SameBatchInOrder(result.list)

\* getAll() returns two records that one flush took
C4_Witness ==
    /\ result.op = "getAll"
    /\ \E i, j \in 1..Len(result.list) :
          i < j /\ batchOf[result.list[i].index] = batchOf[result.list[j].index]

\* C5 (burst larger than the limit): a flush of a batch of more records than
\* maxEntries, with nothing else in flight, ends with exactly maxEntries durable
\* records: the last maxEntries records of the batch, in append order.
C5_BurstLargerThanLimit ==
    (/\ flushed.kind # "none"
     /\ flushed.alone
     /\ Len(flushed.batch) > flushed.limit)
        => flushed.durable = LastN(flushed.batch, flushed.limit)

\* such a flush settles, and the collection held a record when it started: the
\* batch starts after the first record, which an earlier flush stored
C5_Witness ==
    /\ flushed.kind # "none"
    /\ flushed.alone
    /\ Len(flushed.batch) > flushed.limit
    /\ flushed.batch[1].index > 1

\* setMaxLogs(n), n >= 1, resolved in the last step; it was called with nothing
\* in flight, and nothing else was called or fired while it was in flight
LimitSet ==
    /\ result.op = "setMaxLogs"
    /\ result.status = "ok"
    /\ call.clean
    /\ result.alone
    /\ result.appended = call.appended

\* the durable records followed by the buffered records, when it was called
DurableThenBuffered == call.durable \o call.buffered

\* C6 (setMaxLogs postcondition): when setMaxLogs(n) resolves, getMaxLogs() = n,
\* the buffer is empty and the durable collection is exactly the last
\* min(n, d+p) records of the d durable records followed by the p buffered ones.
C6_SetMaxLogsPost ==
    LimitSet =>
        /\ result.limit = call.arg
        /\ result.buffered = <<>>
        /\ result.durable =
              LastN(DurableThenBuffered, Min(call.arg, Len(DurableThenBuffered)))

\* C6, amended: the buffer is flushed under the limit m in force before the
\* call, so the durable collection is the last min(n, m, d+p) of those records.
C6_SetMaxLogsPostAmended ==
    LimitSet =>
        /\ result.limit = call.arg
        /\ result.buffered = <<>>
        /\ result.durable =
              LastN(DurableThenBuffered,
                    Min(call.arg, Min(call.limit, Len(DurableThenBuffered))))

\* a shrinking setMaxLogs resolves that was called with durable records and
\* buffered records, more of them than the new limit
C6_Witness ==
    /\ LimitSet
    /\ call.arg < call.limit
    /\ call.durable # <<>>
    /\ call.buffered # <<>>
    /\ Len(DurableThenBuffered) > call.arg

\* C7 (limit rejection): a step in which setMaxLogs(n), n < 1, rejects changes
\* neither the limit, the durable records, the buffered records nor the armed
\* timer, and starts no flush (no request is issued, no async call begins).
C7_LimitRejection ==
    [][(result'.op = "setMaxLogs" /\ result'.status = "invalid")
          => UNCHANGED <<maxEntries, pendingWrites, writeTimer, timers, store,
                         nextId, handleOpen, queue, tasks>>]_vars

\* setMaxLogs rejected with records buffered, the timer armed and records durable
C7_Witness ==
    /\ result.op = "setMaxLogs"
    /\ result.status = "invalid"
    /\ pendingWrites # <<>>
    /\ writeTimer \in timers
    /\ store # <<>>

\* C8 (limit at least one): in every reachable state of a store, whatever
\* integer its constructor was given, getMaxLogs() >= 1.
C8_LimitAtLeastOne == getMaxLogs >= 1

\* record k is in the buffer, in the batch of a flush in flight, or in a request
Buffered(k) ==
    \/ In(Entry(k), pendingWrites)
    \/ \E t \in Slots : In(Entry(k), tasks[t].toWrite)
    \/ \E i \in 1..Len(queue) :
          queue[i].entry = Entry(k) \/ In(Entry(k), queue[i].records)

\* the latest clear() was called with nothing in flight, and it has resolved
ClearResolved ==
    /\ cleared
    /\ clearPoint >= 0
    /\ tasks["caller"].kind # "clear"

\* C9 (clear): from a clear() called with no flush in flight, no record appended
\* before it is buffered any more; once it has resolved none is durable or
\* returned; until the next append the collection and the buffer are empty, no
\* timer is armed, nothing is written and count() returns 0; the records
\* appended after it are stored as usual and are the only records returned.
C9_Clear ==
    /\ (cleared /\ clearPoint >= 0) => \A k \in 1..clearPoint : ~Buffered(k)
    /\ ClearResolved =>
          /\ \A k \in 1..clearPoint : ~In(Entry(k), StripAll(store))
          /\ result.op = "getAll" => \A k \in 1..clearPoint : ~In(Entry(k), result.list)
          /\ appended = clearPoint =>
                /\ store = <<>>
                /\ pendingWrites = <<>>
                /\ timers = {}
                /\ \A i \in 1..Len(queue) : queue[i].op \in {"read", "count"}
                /\ result.op = "count" => result.n = 0
          /\ (/\ result.op = "getAll"
              /\ call.clean
              /\ result.alone
              /\ call.appended > clearPoint
              /\ call.buffered = Range(clearPoint + 1, call.appended))
                => result.list = LastN(call.buffered, Min(call.limit, Len(call.buffered)))

\* clear() resolves that was called with records buffered and records durable
C9_Witness ==
    /\ result.op = "clear"
    /\ call.clean
    /\ call.buffered # <<>>
    /\ call.durable # <<>>

\* C10 (close flushes before releasing): when close() releases the handle, every
\* record appended before that close() has been submitted to the collection; and
\* a store opened afterwards on the same key returns all of those records from
\* getAll() (as many as the limit admits).
C10_CloseFlushesFirst ==
    /\ closing.released => closing.unsubmitted = {}
    /\ (/\ result.op = "reopen"
        /\ call.appended = closing.appended
        /\ closing.appended <= result.limit)
          => \A k \in 1..closing.appended : In(Entry(k), result.list)

\* positions, in the durable list the first of consecutive close() calls found,
\* of the records that are durable now
KeptOfFirst == {k \in 1..Len(closing.first) : In(closing.first[k], StripAll(store))}

\* what the limit demands to evict for the records buffered at that close()
DueEvictions ==
    LET e == Len(closing.first) + Len(closing.buffered) - maxEntries
    IN  IF e > 0 THEN e ELSE 0

\* close() calls with no append since the first of them, made from a state with
\* nothing in flight, have settled
ClosedAndSettled ==
    /\ closing.called
    /\ closing.clean
    /\ appended = closing.appended
    /\ Quiet(Cur)

\* C11 (idempotent close): consecutive close() calls, also when the flush inside
\* close fails, never throw (no rejection escapes), and the durable records
\* present before the first close() are still present afterwards -- read with
\* the capacity bound: all but the oldest ones that the limit demands to evict
\* for the records buffered at the first close().
C11_IdempotentClose ==
    /\ unhandled = FALSE
    /\ ClosedAndSettled =>
          /\ \A i, j \in 1..Len(closing.first) :
                (i < j /\ i \in KeptOfFirst) => j \in KeptOfFirst
          /\ Len(closing.first) - Cardinality(KeptOfFirst) <= DueEvictions

\* the durable records followed by the buffered records, when close() was called
ClosedWith == closing.first \o closing.buffered

\* close(), called with nothing in flight, has released the handle and nothing
\* is in flight; nothing was appended, cleared or re-limited since it was called
CloseSettled ==
    /\ closing.released
    /\ closing.clean
    /\ closing.pristine
    /\ appended = closing.appended
    /\ Quiet(Cur)

\* an awaited call made after close() released the handle returned in the last
\* step
LaterResult ==
    /\ closing.released
    /\ result.op \in {"getAll", "count", "setMaxLogs", "clear"}

\* it was called with nothing in flight, and nothing else was called or fired
\* while it was in flight
LaterAlone ==
    /\ LaterResult
    /\ result.status = "ok"
    /\ call.clean
    /\ result.alone
    /\ result.appended = call.appended

C13_AppendNeverFails ==
    /\ [](unhandled = FALSE)
    /\ [][appended' = appended + 1 =>
            /\ pendingWrites' = Append(pendingWrites, Entry(appended'))
            /\ timers' = (timers \ {writeTimer}) \cup {writeTimer'}
            /\ writeTimer' \notin timers
            /\ result'.status = "none"
            /\ UNCHANGED <<maxEntries, store, nextId, handleOpen, queue, tasks,
                           failures>>]_vars

\* the flush of a timer failed and put its batch back, with no rejection escaped
C13_Witness ==
    /\ flushed.failed
    /\ flushed.kind = "timer"
    /\ flushed.batch # <<>>
    /\ pendingWrites # <<>>
    /\ unhandled = FALSE

\* the entries of the appends that the flush of t has in the queue q, in order
Submitted(q, t) ==
    LET sel == SelectSeq(q, LAMBDA r : r.task = t /\ r.op = "append")
    IN  [i \in 1..Len(sel) |-> sel[i].entry]

\* C14 (requeue on flush failure): when a flush fails, the buffer it leaves is
\* its whole batch, in the batch's order, followed by the buffer it found (the
\* records appended while it was in flight); a flush that starts takes the
\* whole buffer and submits it in the buffer's order, so the requeued batch is
\* resubmitted before the later records.
C14_RequeueOnFailure ==
    /\ [](flushed.failed => flushed.buffered = flushed.batch \o flushed.waiting)
    /\ [][\A t \in Slots :
            /\ (tasks[t].pc = "idle" /\ tasks'[t].toWrite # <<>>) =>
                  /\ tasks'[t].toWrite = pendingWrites
                  /\ pendingWrites' = <<>>
            /\ (tasks[t].pc # "appends" /\ tasks'[t].pc = "appends") =>
                  Submitted(queue', t) = tasks'[t].toWrite]_vars

\* a flush failed that had taken several records, with a record appended while
\* it was in flight
C14_Witness ==
    /\ flushed.failed
    /\ Len(flushed.batch) > 1
    /\ flushed.waiting # <<>>
    /\ flushed.waiting[1].index > flushed.batch[Len(flushed.batch)].index

\* the request at the head of the queue is the durable read of getAll(), the
\* durable count of count() or the durable clear of clear()
DirectRequest ==
    \/ HeadIs("caller", "read") /\ tasks["caller"].kind = "getAll"
    \/ HeadIs("caller", "count") /\ tasks["caller"].kind = "count"
    \/ HeadIs("caller", "clear") /\ tasks["caller"].kind = "clear"

\* C15 (direct failures propagate): a step in which the durable read of
\* getAll(), the durable count of count() or the durable clear of clear() fails
\* settles that call as rejected to its caller: no list and no count is
\* returned, and the collection is unchanged.
C15_DirectFailuresPropagate ==
    [][(DirectRequest /\ failures' = failures + 1) =>
          /\ result'.op = tasks["caller"].kind
          /\ result'.status = "failed"
          /\ result'.list = <<>>
          /\ tasks'["caller"].pc = "idle"
          /\ UNCHANGED <<store, nextId, unhandled>>]_vars

\* count() rejected: its durable count failed after its forced flush had stored
\* the buffered records
C15_Witness ==
    /\ result.op = "count"
    /\ result.status = "failed"
    /\ call.buffered # <<>>
    /\ result.flushFailed = FALSE
    /\ result.buffered = <<>>

\* C16 (a failed forced flush is reported): when the flush that getAll() or
\* count() forced failed to store the buffered records, the call gives its
\* caller a failed result.
C16_FailedFlushReported ==
    (result.op \in {"getAll", "count"} /\ result.flushFailed)
        => result.status = "failed"

\* C17 (sequence identifiers are never exposed): every record of a list that
\* getAll() returns has the fields its appender supplied and no id field,
\* whatever identifiers the collection holds after appends, flushes, trims
\* and setMaxLogs calls.
C17_IdsNeverExposed ==
    result.op = "getAll" =>
        \A i \in 1..Len(result.list) : DOMAIN result.list[i] = {"index"}

\* getAll() returns several records from a collection that a trim has
\* rewritten: the stored identifiers no longer start at 1
C17_Witness ==
    /\ result.op = "getAll"
    /\ Len(result.list) > 1
    /\ Len(result.stored) = Len(result.list)
    /\ result.stored[1].id > 1
    /\ result.stored[1].id # result.stored[1].index

\* count() returned in the last step; it was called with nothing in flight
Counted ==
    /\ result.op = "count"
    /\ call.clean

\* getAll() returned in the last step; it was called in the step after the one
\* in which a count(), called with nothing in flight, had returned
ReadAfterCount ==
    /\ result.op = "getAll"
    /\ call.prior.op = "count"
    /\ call.prior.clean

\* C18 (count forces a flush): count(), called with d durable and p buffered
\* records and no flush in flight, returns min(maxEntries, d+p) and leaves the
\* buffer empty, and its result is the length of the list that a getAll()
\* called right after it returns.
C18_CountForcesFlush ==
    /\ Counted =>
          /\ result.n = Min(call.limit, Len(DurableThenBuffered))
          /\ result.buffered = <<>>
    /\ ReadAfterCount => Len(result.list) = call.prior.n

\* C18, amended: that holds when nothing is appended and no timer fires while
\* count() is in flight, and likewise for the getAll() that follows; a record
\* appended while count() is in flight stays in the buffer when it returns.
C18_CountForcesFlushAmended ==
    /\ (Counted /\ result.alone) =>
          /\ result.n = Min(call.limit, Len(DurableThenBuffered))
          /\ result.durable =
                LastN(DurableThenBuffered, Min(call.limit, Len(DurableThenBuffered)))
          /\ result.buffered = Range(call.appended + 1, result.appended)
    /\ (/\ ReadAfterCount
        /\ call.prior.alone
        /\ call.prior.appended = call.prior.called
        /\ result.alone
        /\ result.appended = call.prior.appended)
          => Len(result.list) = call.prior.n

\* count() returns the limit: it was called with durable records and buffered
\* records, more of them than the limit, and nothing else ran meanwhile
C18_Witness ==
    /\ Counted
    /\ result.alone
    /\ result.appended = call.appended
    /\ call.durable # <<>>
    /\ call.buffered # <<>>
    /\ Len(DurableThenBuffered) > call.limit
    /\ result.n = call.limit

\* C19 (debounce coalescing): at most one timer is armed; an append cancels the
\* armed timer and arms a new one; the buffer holds exactly the records appended
\* since a flush last took it; and the firing of the timer leaves no timer armed
\* and starts one flush whose batch is that whole buffer -- so N appends with no
\* firing and no forced flush between them lead to one timer-triggered flush
\* that submits all N records as one batch.
C19_DebounceCoalescing ==
    /\ [](/\ Cardinality(timers) <= 1
          /\ pendingWrites = Range(appended - Len(pendingWrites) + 1, appended))
    /\ [][/\ appended' = appended + 1 =>
                /\ timers' = {writeTimer'}
                /\ writeTimer' \notin timers
          /\ (appended' = appended /\ timers' # timers) =>
                /\ timers' = {}
                /\ pendingWrites' = <<>>
                /\ pendingWrites # <<>> =>
                      /\ tasks["timer"].pc = "idle"
                      /\ tasks'["timer"].pc = "count1"
                      /\ tasks'["timer"].toWrite = pendingWrites]_vars

\* the timer has fired once after a burst of appends: its flush holds several
\* records, the buffer is empty and no timer is armed
C19_Witness ==
    /\ tasks["timer"].pc = "count1"
    /\ Len(tasks["timer"].toWrite) > 1
    /\ pendingWrites = <<>>
    /\ timers = {}

\* setMaxLogs(n) resolved in the last step, with n at least the number of the
\* durable and the buffered records it was called with
LimitSetWide ==
    /\ LimitSet
    /\ call.arg >= Len(DurableThenBuffered)

\* the collection was not rewritten and nothing was evicted: the records stored
\* at the call are stored as they were, under their identifiers, and the
\* buffered records follow them in order
OnlyFlushed ==
    /\ result.limit = call.arg
    /\ result.buffered = <<>>
    /\ Len(result.stored) = Len(DurableThenBuffered)
    /\ SubSeq(result.stored, 1, Len(call.stored)) = call.stored
    /\ StripAll(result.stored) = DurableThenBuffered
    /\ \A i, j \in 1..Len(result.stored) :
          i < j => result.stored[i].id < result.stored[j].id

\* C20 (setMaxLogs frame): setMaxLogs(n) with n at least the number of durable
\* plus buffered records changes only the limit: the durable records and their
\* order are unchanged (no trim, no rewrite), apart from the buffered records
\* being flushed.
C20_SetMaxLogsFrame == LimitSetWide => OnlyFlushed

\* C20, amended: that holds when the durable plus buffered records also fit the
\* limit in force before the call, under which the buffer is flushed.
C20_SetMaxLogsFrameAmended ==
    (LimitSetWide /\ Len(DurableThenBuffered) <= call.limit) => OnlyFlushed

\* such a setMaxLogs(n) resolves: it changed the limit and was called with
\* durable records and buffered records that fit the old limit
C20_Witness ==
    /\ LimitSetWide
    /\ Len(DurableThenBuffered) <= call.limit
    /\ call.arg # call.limit
    /\ call.durable # <<>>
    /\ call.buffered # <<>>

\* what getMaxLogs() of a core constructed with these options returns
Configured(options) == IF options.has THEN options.maxLogs ELSE DefaultMaxLogs

\* C21 (singleton): at most one core is ever constructed and every call of
\* ILogger() returns it; the first call sets the limit from its options
\* (default 5000), a later call changes nothing whatever options it passes, and
\* the limit changes afterwards only inside setMaxLogs; every logger instance
\* holds the storage of that one core, and its writeLog adds the record to the
\* end of that store's buffer.
C21_Singleton ==
    /\ [](/\ illogger \in {0, 1}
          /\ \A name \in Names : instances[name] \in {0, illogger})
    /\ [][/\ result'.op = "ILogger" =>
                /\ result'.n = 1
                /\ illogger' = 1
                /\ result'.limit = getMaxLogs'
                /\ illogger = 0 => getMaxLogs' = Configured(result'.options)
                /\ illogger # 0 =>
                      UNCHANGED <<maxEntries, pendingWrites, writeTimer, timers, store,
                                  nextId, handleOpen, queue, tasks, illogger,
                                  instances, appended>>
          /\ getMaxLogs' # getMaxLogs =>
                \/ result'.op = "ILogger" /\ illogger = 0
                \/ tasks["caller"].kind = "setMaxLogs"
                \/ tasks'["caller"].kind = "setMaxLogs"
          /\ appended' = appended + 1 =>
                pendingWrites' = Append(pendingWrites, Entry(appended'))]_vars

\* a later ILogger() call passed a maxLogs other than the limit in force, after
\* both logger instances were created and records of theirs were buffered
C21_Witness ==
    /\ result.op = "ILogger"
    /\ result.options.has
    /\ result.options.maxLogs # getMaxLogs
    /\ result.n = 1
    /\ \A name \in Names : instances[name] = 1
    /\ Len(pendingWrites) > 1

\* C22 (read observes all prior appends under interleaving): the list that
\* getAll() returns holds every record appended before getAll() was called,
\* except the oldest ones that the limit evicts (counting every record appended
\* until it returned), whatever flush of a timer is in flight meanwhile.
C22_ReadObservesPriorAppends ==
    (result.op = "getAll" /\ result.status = "ok") =>
        \A k \in 1..call.appended :
            k > result.appended - result.limit => In(Entry(k), result.list)

\* nothing is in flight, nothing is buffered and no timer is armed
Quiescent ==
    /\ Quiet(Cur)
    /\ pendingWrites = <<>>
    /\ timers = {}

\* C23 (eviction under overlapping flushes): at quiescence the durable
\* collection is, in order, the last min(maxEntries, total) appended records:
\* no trim that replaces the collection drops a record that another flush
\* appended after the trim had read it.
C23_EvictsOldestOnly ==
    Quiescent =>
        StripAll(store) = Range(appended - Min(maxEntries, appended) + 1, appended)

\* the records of s are in the order of their appends
InAppendOrder(s) ==
    \A i, j \in 1..Len(s) : i < j => s[i].index < s[j].index

\* C24 (order across batches): a record appended before another one precedes
\* it in the durable collection and in the list getAll() returns, whenever both
\* are present, also when two flushes that overlap took them.
C24_OrderAcrossBatches ==
    /\ InAppendOrder(store)
    /\ result.op = "getAll" => InAppendOrder(result.list)

\* the number of records appended before the latest clear() was called
ClearedBefore == IF clearPoint >= 0 THEN clearPoint ELSE -1 - clearPoint

\* the latest clear() was called while a flush was in flight, and that clear()
\* and every flush have settled
ClearedInFlight ==
    /\ cleared
    /\ clearPoint < 0
    /\ Quiet(Cur)

\* C25 (clear against an in-flight flush): once clear(), called while a flush
\* had taken its batch, and that flush have both settled, no record appended
\* before the clear() is in the durable collection or in the buffer.
C25_ClearAgainstFlush ==
    ClearedInFlight =>
        \A k \in 1..ClearedBefore :
            /\ ~In(Entry(k), StripAll(store))
            /\ ~In(Entry(k), pendingWrites)

\* the async call is inside flushPendingWrites, awaiting a request
InFlush(T) == T.pc \in {"count1", "trimRead", "trimWrite", "appends", "count2"}

\* C26 (close against an in-flight flush): in the step in which close()
\* releases the handle no flush of the store is still awaiting a durable
\* operation, and no record appended before that close() is still to be
\* handed to the collection.
C26_CloseAgainstFlush ==
    [][(closing'.released /\ ~closing.released) =>
          /\ \A t \in Slots : ~InFlush(tasks'[t])
          /\ closing'.unsubmitted = {}]_vars

\* C27 (the capacity bound survives trim failures): when getAll(), count() or
\* setMaxLogs(), called with nothing in flight and with nothing else running
\* meanwhile, returns a successful result, the durable collection holds at most
\* maxEntries records, also when a request of a trim has failed.
C27_BoundSurvivesTrimFailure ==
    (/\ result.op \in {"getAll", "count", "setMaxLogs"}
     /\ result.status = "ok"
     /\ call.clean
     /\ result.alone)
        => Len(result.stored) <= result.limit

\* the request at the head of the queue is the db.count() of setMaxLogs or a
\* request of the trim that setMaxLogs calls after it
OwnRequestOfSetMaxLogs ==
    /\ tasks["caller"].kind = "setMaxLogs"
    /\ \/ HeadIs("caller", "smCount")
       \/ /\ HeadIs("caller", "trimRead") \/ HeadIs("caller", "trimWrite")
          /\ tasks["caller"].ret = "smEnd"

\* C28 (setMaxLogs propagates its own failures): a step in which the durable
\* count that setMaxLogs(n) issues, or the read or the replace of the trim it
\* issues, fails settles setMaxLogs as rejected to its caller.
C28_SetMaxLogsPropagates ==
    [][(OwnRequestOfSetMaxLogs /\ failures' = failures + 1) =>
          /\ result'.op = "setMaxLogs"
          /\ result'.status = "failed"]_vars

\* getAll(), count() or setMaxLogs() returned in the last step; its forced flush
\* took records out of the buffer, and nothing was appended meanwhile
ForcedFlushDone ==
    /\ result.op \in {"getAll", "count", "setMaxLogs"}
    /\ result.status = "ok"
    /\ call.buffered # <<>>
    /\ result.appended = call.appended

\* C29 (a forced flush cancels the debounce timer): after getAll(), count() or
\* setMaxLogs() has flushed the buffer, no timer remains armed.
C29_ForcedFlushCancelsTimer == ForcedFlushDone => timers = {}

\* C30 (a flush with an empty buffer is a no-op): a timer that fires with the
\* buffer empty only disarms itself -- no request is issued, no async call
\* starts, and the collection, the buffer and the limit are unchanged; and a
\* getAll() called with the buffer empty issues its own read and nothing else:
\* its forced flush issues no count, read, append or replace.
C30_EmptyFlushNoOp ==
    [][/\ flushed'.kind = "empty" =>
            /\ pendingWrites = <<>>
            /\ timers' \subseteq timers
            /\ Cardinality(timers') = Cardinality(timers) - 1
            /\ UNCHANGED <<maxEntries, pendingWrites, writeTimer, store, nextId,
                           handleOpen, queue, tasks, appended>>
      /\ (/\ tasks["caller"].pc = "idle"
          /\ tasks'["caller"].kind = "getAll"
          /\ pendingWrites = <<>>) =>
            /\ tasks'["caller"].pc = "read"
            /\ queue' = Append(queue, Req("caller", "read"))
            /\ UNCHANGED <<maxEntries, pendingWrites, writeTimer, timers, store,
                           nextId, handleOpen, appended>>]_vars

\* the timer has fired after a forced flush had emptied the buffer: it found
\* nothing to flush, the record of its append is durable and nothing is in flight
C30_Witness ==
    /\ flushed.kind = "empty"
    /\ writeTimer # 0
    /\ timers = {}
    /\ In(Entry(writeTimer), flushed.durable)
    /\ Quiet(Cur)

\* the flush of t has run with no other async call in flight, and its batch
\* is no longer than the limit
FlushAlone(t) ==
    /\ InFlush(tasks[t])
    /\ alone[t]
    /\ Len(tasks[t].toWrite) <= maxEntries

\* what a flush of the batch of t into the collection as it is must evict
Excess(t) == Len(store) + Len(tasks[t].toWrite) - maxEntries

\* a step in which that flush, awaiting a request at pc, goes on
Resumes(t, pc) ==
    /\ FlushAlone(t)
    /\ tasks[t].pc = pc
    /\ tasks'[t] # tasks[t]

\* C31 (proactive trim): in a flush of B <= maxEntries records into C durable
\* records with C + B > maxEntries and no other flush overlapping, the trim
\* removes exactly the C + B - maxEntries oldest records before a record of the
\* batch is added; the durable count never exceeds maxEntries while the flush
\* is in flight; and the final re-check starts no second trim.
C31_ProactiveTrim ==
    /\ [](\A t \in Slots : FlushAlone(t) => Len(store) <= maxEntries)
    /\ [][\A t \in Slots :
            /\ (Resumes(t, "count1") /\ Excess(t) > 0) =>
                  /\ tasks'[t].pc = "trimRead"
                  /\ tasks'[t].excess = Excess(t)
                  /\ store' = store
            /\ Resumes(t, "trimWrite") =>
                  /\ tasks[t].excess = Excess(t)
                  /\ StripAll(store') =
                        StripAll(SubSeq(store, Excess(t) + 1, Len(store)))
                  /\ Len(store') = maxEntries - Len(tasks[t].toWrite)
                  /\ \A i \in 1..Len(store') : ~In(StripId(store'[i]), tasks[t].toWrite)
                  /\ tasks'[t].pc = "appends"
            /\ Resumes(t, "count2") =>
                  tasks'[t].pc \notin {"trimRead", "trimWrite"}]_vars

\* a flush that ran alone has trimmed and added its batch: the collection is
\* full, and it still holds a record that was stored before the batch
C31_Witness ==
    \E t \in Slots :
        /\ FlushAlone(t)
        /\ tasks[t].pc = "count2"
        /\ tasks[t].hasExcess
        /\ Len(store) = maxEntries
        /\ store[1].index < tasks[t].toWrite[1].index

\* record k is one of the oldest records, which the limit evicts
Evicted(k) == k <= appended - maxEntries

\* C32 (eventual durability without reads): on a store that is only appended
\* to, with no failing request, every buffered record eventually is durable for
\* good unless it is one of the oldest records, which the limit evicts; and
\* eventually the buffer is empty and stays empty.
C32_EventualDurability ==
    /\ \A k \in 1..MaxAppends :
          [](In(Entry(k), pendingWrites)
                => <>[](In(Entry(k), StripAll(store)) \/ Evicted(k)))
    /\ <>[](pendingWrites = <<>>)

\* no async call of the store is inside flushPendingWrites
NoFlushInFlight == \A t \in Slots : ~InFlush(tasks[t])

Stranded ==
    /\ pendingWrites # <<>>
    /\ NoFlushInFlight
    /\ timers = {}

NoDuplicates(s) ==
    \A i, j \in 1..Len(s) : i # j => s[i].index # s[j].index

\* C34 (no duplication): whatever flushes overlap and whatever requests fail,
\* each appended record is stored in the durable collection at most once, and
\* getAll() never returns it twice.
C34_NoDuplication ==
    /\ NoDuplicates(store)
    /\ result.op = "getAll" => NoDuplicates(result.list)

\* setMaxLogs is in flight and the flush it forced has settled: it awaits its
\* own db.count() or a request of its own trim
PastForcedFlush ==
    /\ tasks["caller"].kind = "setMaxLogs"
    /\ \/ tasks["caller"].pc = "smCount"
       \/ tasks["caller"].pc \in {"trimRead", "trimWrite"} /\ tasks["caller"].ret = "smEnd"

\* C35 (setMaxLogs always installs the limit): once the flush that
\* setMaxLogs(n), n >= 1, forced has settled, with or without a failure,
\* getMaxLogs() returns n -- while setMaxLogs goes on and when it has resolved
\* or has rejected because its db.count() failed; a setMaxLogs(n) with n < 1
\* leaves the limit that was in force.
C35_LimitInstalled ==
    /\ PastForcedFlush => getMaxLogs = call.arg
    /\ result.op = "setMaxLogs" =>
          getMaxLogs = IF result.status = "invalid" THEN call.limit ELSE call.arg

\* setMaxLogs(n) has rejected, its db.count() having failed after its forced
\* flush had stored records: the limit is n, not the limit it was called under
C35_Witness ==
    /\ result.op = "setMaxLogs"
    /\ result.status = "failed"
    /\ call.arg # call.limit
    /\ call.buffered # <<>>
    /\ getMaxLogs = call.arg

\* C36 (at most one timer): in every reachable state at most one timer is
\* armed, and it is the one whose handle the store holds; append() cancels the
\* armed timer before it arms a new one; clear() and close() leave no timer
\* armed; and only an armed timer fires: the flush of a timer starts from the
\* one handle that no append(), clear() or close() has cancelled.
C36_AtMostOneTimer ==
    /\ [](/\ Cardinality(timers) <= 1
          /\ timers \subseteq {writeTimer})
    /\ [][/\ CallAppend =>
                /\ writeTimer' \notin timers
                /\ timers' = {writeTimer'}
          /\ CallClear =>
                /\ timers' = {}
                /\ writeTimer' = 0
          /\ CallClose =>
                /\ timers' = {}
                /\ writeTimer' = 0
          /\ (tasks["timer"].pc = "idle" /\ tasks'["timer"].pc # "idle") =>
                /\ timers = {writeTimer}
                /\ timers' = {}
                /\ writeTimer' = writeTimer]_vars

\* clear() has just cancelled the timer of the latest append: records were
\* buffered when it was called, and neither a timer nor a handle is left
C36_Witness ==
    /\ tasks["caller"].pc = "clear"
    /\ call.buffered # <<>>
    /\ call.buffered[Len(call.buffered)] = Entry(appended)
    /\ appended > 1
    /\ timers = {}
    /\ writeTimer = 0

\* C37 (records round-trip verbatim): every record of a list that getAll()
\* returns has exactly the fields and the values of the record that its
\* append() was given -- the record without fields, nested values, null values
\* and a field named id included -- also after a trim has rewritten the
\* collection.
C37_RoundTrip ==
    (result.op = "getAll" /\ result.status = "ok") =>
        \A i \in 1..Len(result.list) :
            result.list[i] = supplied[result.list[i].index]
====
